---- MODULE Spec2Model ----
(***************************************************************************)
(* A model of camerabot/camerabot.py: the CameraBot command handlers, the  *)
(* authorization_check and camera_selection decorators, the reply          *)
(* dispatch of send_cam_photo / cmd_help, and the thread cmd_stop starts.  *)
(*                                                                         *)
(* Strings the code takes apart (update.message.text, the registry keys)   *)
(* are sequences of one-character strings.  Strings the code only builds   *)
(* with str.format are records naming the template and its arguments.      *)
(* The chat transport (reply_text, reply_photo, ...) is taken to deliver:  *)
(* a reply call appends one reply and returns.                             *)
(***************************************************************************)
EXTENDS Naturals, Sequences, FiniteSets, TLC

VARIABLES
    snapshots_taken,  \* cam.snapshots_taken of every registered camera
    request,          \* the update the dispatcher handed to the last handler
    replies,          \* the replies sent for that update, in order
    camCalls,         \* the camera calls made for that update, in order
    raised,           \* the exception that left the handler ("none" if none)
    log,              \* the records bot._log got for that update
    pc,               \* where the dispatcher thread is inside cmd_stop
    threads,          \* the threads cmd_stop started, each one's position
    spawned,          \* the threads the handler of `request` started
    rtext,            \* the resolver on its own: the text given
    rid,              \* the resolver on its own: the identifier extracted
    rdone             \* the resolver on its own: whether it has run

vars == <<snapshots_taken, request, replies, camCalls, raised, log, pc,
          threads, spawned, rtext, rid, rdone>>

botVars == <<snapshots_taken, request, replies, camCalls, raised, log, pc,
             threads, spawned>>

resolverVars == <<rtext, rid, rdone>>

(***************************************************************************)
(* Bounds.                                                                 *)
(***************************************************************************)
MaxSnapshots == 2   \* take_snapshot succeeds at most this often per camera
MaxStops == 1       \* cmd_stop starts at most this many threads
MaxTokens == 3      \* tokens after the prefix of a text given to the resolver

(***************************************************************************)
(* Sequences of characters.                                                *)
(***************************************************************************)
Last(s) == s[Len(s)]

Max(S) == CHOOSE x \in S : \A y \in S : y <= x

Min(S) == CHOOSE x \in S : \A y \in S : x <= y

CamMarker == <<"c", "a", "m", "_">>

\* the positions p (0-based, as Python counts) where `cam_` starts in text
Occurrences(text) ==
    {p \in 0..Len(text) :
        /\ p + Len(CamMarker) <= Len(text)
        /\ SubSeq(text, p + 1, p + Len(CamMarker)) = CamMarker}

\* `.` of a pattern compiled without DOTALL: any character but a line feed
Dot(ch) == ch # "\n"

\* the ends of the matches `^.*(?=cam_)` can make at the start of text
MatchEnds(text) ==
    {p \in Occurrences(text) : \A i \in 1..p : Dot(text[i])}

\* re.split(r'^.*(?=cam_)', text) with a `.*` that stops at the FIRST place
\* the lookahead holds (a non-greedy `.*?`)
re_split_nongreedy(text) ==
    IF MatchEnds(text) = {} THEN <<text>>
    ELSE <<SubSeq(text, 1, 0),
           SubSeq(text, Min(MatchEnds(text)) + 1, Len(text))>>

\* re.split(r'^.*(?=cam_)', text): `^` anchors the one possible match at 0,
\* the greedy `.*` takes the longest run the lookahead allows, and the text
\* is cut into what is before the match and what is after it
re_split(text) ==
    IF MatchEnds(text) = {} THEN <<text>>
    ELSE <<SubSeq(text, 1, 0),
           SubSeq(text, Max(MatchEnds(text)) + 1, Len(text))>>

\* the same cut with the lookahead dropped (r'^.*cam_'): the marker is eaten
ExtractCamIdNoLookahead(text) ==
    IF MatchEnds(text) = {} THEN text
    ELSE SubSeq(text, Max(MatchEnds(text)) + Len(CamMarker) + 1, Len(text))

\* cam_id = re.split(r'^.*(?=cam_)', update.message.text)[-1]
ExtractCamId(text) == Last(re_split(text))

(***************************************************************************)
(* The configuration the constructor is given.                             *)
(***************************************************************************)
Cam1 == <<"c", "a", "m", "_", "1">>
Cam2 == <<"c", "a", "m", "_", "2">>

\* self._user_ids
user_ids == {42}

\* every chat id an update can come from
ChatIds == user_ids \cup {7}

\* self._cam_instances: key -> {instance (its description), commands}
cam_instances ==
    (Cam1 :> [description |-> "Front door",
              commands |-> <<"getpic_cam_1", "getfullpic_cam_1",
                             "motion_detection_on_cam_1",
                             "motion_detection_off_cam_1">>])
    @@ (Cam2 :> [description |-> "Garage",
                 commands |-> <<"getpic_cam_2", "getfullpic_cam_2">>])

\* the order self._cam_instances.items() yields the entries in
CamOrder == <<Cam1, Cam2>>

\* cmd_help's cam_id=None
None == <<>>

(***************************************************************************)
(* Inputs: the updates the dispatcher can hand to a handler.               *)
(***************************************************************************)
GetpicVerb == <<"/", "g", "e", "t", "p", "i", "c", "_">>
GetfullpicVerb == <<"/", "g", "e", "t", "f", "u", "l", "l", "p", "i", "c", "_">>
MotionOnVerb ==
    <<"/", "m", "o", "t", "i", "o", "n", "_", "d", "e", "t", "e", "c", "t",
      "i", "o", "n", "_", "o", "n", "_">>
MotionOffVerb ==
    <<"/", "m", "o", "t", "i", "o", "n", "_", "d", "e", "t", "e", "c", "t",
      "i", "o", "n", "_", "o", "f", "f", "_">>
StopText == <<"/", "s", "t", "o", "p">>
ListText == <<"/", "l", "i", "s", "t">>
HelpText == <<"/", "h", "e", "l", "p">>

\* what follows the verb in a camera-scoped text: the two registered
\* cameras, an unregistered one, a doubled marker, and no marker at all
Suffixes ==
    {Cam1, Cam2, <<"c", "a", "m", "_", "3">>, CamMarker \o Cam2, <<"1">>}

ScopedTexts(verb) == {verb \o s : s \in Suffixes}

Updates(texts) == [chat_id : ChatIds, text : texts]

\* what a camera call can come back with: the HomeCamError messages
ErrMsgs == {"Camera unreachable", "Motion Detection already set"}

\* the timestamp take_snapshot returns
Timestamps == {1000}

SnapResults ==
    [ok : {TRUE}, ts : Timestamps, err : {""}]
    \cup [ok : {FALSE}, ts : {0}, err : ErrMsgs]

SwitchResults == [ok : {TRUE}, err : {""}] \cup [ok : {FALSE}, err : ErrMsgs]

(***************************************************************************)
(* Replies.  Every reply is a record of the same shape: the transport call *)
(* (kind), the str.format template (fmt) and the template's arguments.     *)
(***************************************************************************)
Reply(kind, fmt) ==
    [kind |-> kind, fmt |-> fmt, err |-> "", desc |-> "", n |-> 0, ts |-> 0,
     cmds |-> <<>>, filename |-> "", caption |-> "", blocks |-> <<>>]

\* _print_access_error: update.message.reply_text('Not authorized')
NotAuthorized == Reply("text", "Not authorized")

\* '{0}\nTry later or /list other cameras'.format(str(err))
SnapshotErrorReply(err) ==
    [Reply("text", "{err}\nTry later or /list other cameras")
        EXCEPT !.err = err]

\* update.message.reply_text(str(err))
SwitchErrorReply(err) == [Reply("text", "{err}") EXCEPT !.err = err]

\* 'Use /list command to list available cameras and commands'
HelpGeneric ==
    Reply("text", "Use /list command to list available cameras and commands")

\* 'Available commands\n{0} or /list available cameras' over the commands
\* of self._cam_instances[cam_id]
HelpFooter(cam_id) ==
    [Reply("text", "Available commands\n{cmds} or /list available cameras")
        EXCEPT !.cmds = cam_instances[cam_id].commands]

\* 'Stopping {0} bot'.format(self.first_name)
StoppingReply == Reply("text", "Stopping {first_name} bot")

\* the message cmd_list_cams joins: a header with len(self._cam_instances)
\* and one block per entry, in the order of .items()
ListReply ==
    [Reply("html", "<b>You have {n} cameras:</b>{blocks}")
        EXCEPT !.n = Cardinality(DOMAIN cam_instances),
               !.blocks = [i \in 1..Len(CamOrder) |->
                              [cam_id |-> CamOrder[i],
                               description |-> cam_instances[CamOrder[i]].description,
                               commands |-> cam_instances[CamOrder[i]].commands]]]

IsMedia(r) == r.kind \in {"photo", "document"}

(***************************************************************************)
(* The camera collaborator (HomeCam), which this file only calls.          *)
(***************************************************************************)
\* cam.take_snapshot(...) returning: the camera counts the snapshot
take_snapshot(cam_id) == [snapshots_taken EXCEPT ![cam_id] = @ + 1]

\* one call on a camera, and what it came back with
CamCall(cam_id, op, arg, res) ==
    [cam |-> cam_id, op |-> op, arg |-> arg, ok |-> res.ok, err |-> res.err]

(***************************************************************************)
(* What one handler invocation leaves behind.                              *)
(***************************************************************************)
\* the keyword arguments cmd_help declares, at their defaults
HelpDefaults == [append |-> FALSE, requested |-> TRUE, cam_id |-> None]

Call(cmd, update, kwargs) ==
    /\ pc = "idle"
    /\ request' = [cmd |-> cmd, chat_id |-> update.chat_id,
                   text |-> update.text, kwargs |-> kwargs]

Handling(cmd, update) == Call(cmd, update, HelpDefaults)

Outcome(rs, calls, exc, lg) ==
    /\ replies' = rs
    /\ camCalls' = calls
    /\ raised' = exc
    /\ log' = lg

\* the handler ran to its end on the dispatcher thread, starting no thread
Returned == pc' = "idle" /\ spawned' = {} /\ UNCHANGED threads

\* self._get_user_info(update), as one log record
UserInfo == "Request from user_id: {0}, username: {1}, ..."

(***************************************************************************)
(* The decorators.                                                         *)
(***************************************************************************)
\* a gate that lets every chat id through
authorization_check_open(update, func) == func

\* authorization_check.wrapper: func runs only for a chat id in _user_ids;
\* otherwise UserAuthError is raised and caught here, logged, and answered
\* by _print_access_error
authorization_check(update, func) ==
    IF update.chat_id \in user_ids
    THEN func
    ELSE /\ Outcome(<<NotAuthorized>>, <<>>, "none",
                    <<"error: User authorization error", UserInfo>>)
         /\ Returned
         /\ UNCHANGED snapshots_taken

\* a resolver that falls back on the first registered camera
cam_id_of_default(update) ==
    IF ExtractCamId(update.text) \in DOMAIN cam_instances
    THEN ExtractCamId(update.text)
    ELSE CamOrder[1]

\* camera_selection.wrapper, line 40: the identifier taken from the text
cam_id_of(update) == ExtractCamId(update.text)

\* camera_selection.wrapper, line 41: cambot._cam_instances[cam_id] raises
\* KeyError for a key the registry lacks, and nothing here catches it
camera_selection(update, func) ==
    IF cam_id_of(update) \in DOMAIN cam_instances
    THEN func
    ELSE /\ Outcome(<<>>, <<>>, "KeyError", <<>>)
         /\ Returned
         /\ UNCHANGED snapshots_taken

\* the two decorators stacked the other way round
camera_selection_then_authorization_check(update, func) ==
    camera_selection(update, authorization_check(update, func))

\* @authorization_check over @camera_selection: the outer wrapper runs first
authorization_check_then_camera_selection(update, func) ==
    authorization_check(update, camera_selection(update, func))

(***************************************************************************)
(* cmd_help and _print_helper.                                             *)
(***************************************************************************)
\* the replies cmd_help sends: `if requested: ... elif append: ...`
cmd_help_replies(append, requested, cam_id) ==
    IF requested THEN <<HelpGeneric>>
    ELSE IF append THEN <<HelpFooter(cam_id)>>
    ELSE <<>>

\* whether cmd_help's self._cam_instances[cam_id] raises KeyError
cmd_help_raises(append, requested, cam_id) ==
    ~requested /\ append /\ cam_id \notin DOMAIN cam_instances

cmd_help_log(requested) ==
    (IF requested THEN <<"info: Help message has been requested", UserInfo>>
     ELSE <<>>) \o <<"info: Help message has been sent">>

\* _print_helper: cmd_help(update, append=True, requested=False, cam_id)
print_helper(cam_id) == cmd_help_replies(TRUE, FALSE, cam_id)

\* cmd_help, not decorated: any chat id, any flags a caller passes
cmd_help(update, append, requested, cam_id) ==
    /\ Call("help", update,
            [append |-> append, requested |-> requested, cam_id |-> cam_id])
    /\ IF cmd_help_raises(append, requested, cam_id)
       THEN Outcome(<<>>, <<>>, "KeyError", <<>>)
       ELSE Outcome(cmd_help_replies(append, requested, cam_id), <<>>,
                    "none", cmd_help_log(requested))
    /\ Returned
    /\ UNCHANGED snapshots_taken

(***************************************************************************)
(* send_cam_photo and the snapshot handlers.                               *)
(***************************************************************************)
AckReply(fmt, cam_id) ==
    [Reply("text", fmt) EXCEPT !.desc = cam_instances[cam_id].description]

MediaReply(kind, caption, ts, n, filename) ==
    [Reply(kind, "") EXCEPT !.caption = caption, !.ts = ts, !.n = n,
                            !.filename = filename]

\* send_cam_photo that ignores full_pic and sends both media
send_cam_photo_both(ack, caption, ts, n, filename, full_pic) ==
    <<ack, MediaReply("document", caption, ts, n, filename),
      MediaReply("photo", caption, ts, n, "")>>

\* send_cam_photo, from_watchdog=False: reply_text(reply_text), then
\* reply_document(filename, caption) if full_pic else reply_photo(caption)
send_cam_photo(ack, caption, ts, n, filename, full_pic) ==
    <<ack,
      IF full_pic THEN MediaReply("document", caption, ts, n, filename)
      ELSE MediaReply("photo", caption, ts, n, "")>>

\* an except branch that goes on to the help footer
snapshot_failed_with_footer(err, cam_id) ==
    <<SnapshotErrorReply(err)>> \o print_helper(cam_id)

\* `except HomeCamError as err:` of cmd_getpic / cmd_getfullpic: one
\* reply_text and return
snapshot_failed(err, cam_id) == <<SnapshotErrorReply(err)>>

\* the body of cmd_getpic, with cam_id resolved
cmd_getpic_body(cam_id, snap) ==
    /\ snap.ok => snapshots_taken[cam_id] < MaxSnapshots
    /\ IF snap.ok
       THEN /\ snapshots_taken' = take_snapshot(cam_id)
            /\ Outcome(
                 send_cam_photo(
                    AckReply("Sending pic from {desc}...", cam_id),
                    "Pic taken on {ts} (pic #{n})", snap.ts,
                    snapshots_taken'[cam_id], "", FALSE)
                 \o print_helper(cam_id),
                 <<CamCall(cam_id, "take_snapshot", TRUE, snap)>>, "none",
                 <<"info: Resized cam snapshot requested", UserInfo,
                   "info: Sending resized cam snapshot",
                   "info: Resized snapshot sent",
                   "info: Help message has been sent">>)
       ELSE /\ UNCHANGED snapshots_taken
            /\ Outcome(snapshot_failed(snap.err, cam_id),
                       <<CamCall(cam_id, "take_snapshot", TRUE, snap)>>, "none",
                       <<"info: Resized cam snapshot requested", UserInfo>>)
    /\ Returned

cmd_getpic(update, snap) ==
    /\ Handling("getpic", update)
    /\ authorization_check_then_camera_selection(update,
          cmd_getpic_body(cam_id_of(update), snap))

\* the body of cmd_getfullpic, with cam_id resolved
cmd_getfullpic_body(cam_id, snap) ==
    /\ snap.ok => snapshots_taken[cam_id] < MaxSnapshots
    /\ IF snap.ok
       THEN /\ snapshots_taken' = take_snapshot(cam_id)
            /\ Outcome(
                 send_cam_photo(
                    AckReply("Sending full pic from {desc}...", cam_id),
                    "Full pic taken on {ts} (pic #{n})", snap.ts,
                    snapshots_taken'[cam_id], "Full_snapshot_{ts}.jpg", TRUE)
                 \o print_helper(cam_id),
                 <<CamCall(cam_id, "take_snapshot", FALSE, snap)>>, "none",
                 <<"info: Full cam snapshot requested", UserInfo,
                   "info: Sending full snapshot",
                   "info: Full cam snapshot sent",
                   "info: Help message has been sent">>)
       ELSE /\ UNCHANGED snapshots_taken
            /\ Outcome(snapshot_failed(snap.err, cam_id),
                       <<CamCall(cam_id, "take_snapshot", FALSE, snap)>>, "none",
                       <<"info: Full cam snapshot requested", UserInfo>>)
    /\ Returned

cmd_getfullpic(update, snap) ==
    /\ Handling("getfullpic", update)
    /\ authorization_check_then_camera_selection(update,
          cmd_getfullpic_body(cam_id_of(update), snap))

(***************************************************************************)
(* The motion detection handlers.                                          *)
(***************************************************************************)
\* `except HomeCamError as err:` of the two handlers: reply_text(str(err))
switch_failed(err) == <<SwitchErrorReply(err)>>

\* the try block of cmd_motion_detection_on / _off, with cam_id resolved
motion_detection_body(cam_id, enable, res) ==
    /\ IF res.ok
       THEN Outcome(
               <<Reply("text",
                       IF enable THEN "Motion Detection successfully enabled."
                       ELSE "Motion Detection successfully disabled.")>>
               \o print_helper(cam_id),
               <<CamCall(cam_id, "motion_detection_switch", enable, res)>>, "none",
               <<"info: Motion Detection switch requested", UserInfo,
                 "info: Motion Detection successfully switched",
                 "info: Help message has been sent">>)
       ELSE Outcome(switch_failed(res.err),
               <<CamCall(cam_id, "motion_detection_switch", enable, res)>>, "none",
               <<"info: Motion Detection switch requested", UserInfo>>)
    /\ Returned
    /\ UNCHANGED snapshots_taken

cmd_motion_detection_off(update, res) ==
    /\ Handling("motion_detection_off", update)
    /\ authorization_check_then_camera_selection(update,
          motion_detection_body(cam_id_of(update), FALSE, res))

cmd_motion_detection_on(update, res) ==
    /\ Handling("motion_detection_on", update)
    /\ authorization_check_then_camera_selection(update,
          motion_detection_body(cam_id_of(update), TRUE, res))

(***************************************************************************)
(* cmd_list_cams.                                                          *)
(***************************************************************************)
cmd_list_cams(update) ==
    /\ Handling("list", update)
    /\ authorization_check(update,
          /\ Outcome(<<ListReply>>, <<>>, "none",
                     <<"info: Camera list has been requested",
                       "info: Camera list has been sent">>)
          /\ Returned
          /\ UNCHANGED snapshots_taken)

(***************************************************************************)
(* cmd_stop and the thread it starts.                                      *)
(***************************************************************************)
\* cmd_stop up to update.message.reply_text(msg)
cmd_stop(update) ==
    /\ Handling("stop", update)
    /\ update.chat_id \in user_ids => Len(threads) < MaxStops
    /\ authorization_check(update,
          /\ Outcome(<<StoppingReply>>, <<>>, "none",
                     <<"info: Stopping bot", UserInfo>>)
          /\ pc' = "stop_replied"
          /\ spawned' = {}
          /\ UNCHANGED <<snapshots_taken, threads>>)

\* thread = Thread(target=self._stop_polling); thread.start()
cmd_stop_thread_start ==
    /\ pc = "stop_replied"
    /\ threads' = Append(threads, "started")
    /\ spawned' = spawned \cup {Len(threads) + 1}
    /\ pc' = "stop_started"
    /\ UNCHANGED <<snapshots_taken, request, replies, camCalls, raised, log>>

\* a return that first joins the threads the handler started
cmd_stop_return_join ==
    /\ pc = "stop_started"
    /\ \A i \in spawned : threads[i] = "finished"
    /\ pc' = "idle"
    /\ UNCHANGED <<snapshots_taken, request, replies, camCalls, raised, log,
                   threads, spawned>>

\* cmd_stop returns: nothing follows thread.start(), and nothing joins
cmd_stop_return ==
    /\ pc = "stop_started"
    /\ pc' = "idle"
    /\ UNCHANGED <<snapshots_taken, request, replies, camCalls, raised, log,
                   threads, spawned>>

\* the started thread calls its target, self._stop_polling
stop_polling_call(i) ==
    /\ threads[i] = "started"
    /\ threads' = [threads EXCEPT ![i] = "running"]
    /\ UNCHANGED <<snapshots_taken, request, replies, camCalls, raised, log,
                   pc, spawned>>

\* the target returns and the thread ends
stop_polling_return(i) ==
    /\ threads[i] = "running"
    /\ threads' = [threads EXCEPT ![i] = "finished"]
    /\ UNCHANGED <<snapshots_taken, request, replies, camCalls, raised, log,
                   pc, spawned>>

(***************************************************************************)
(* The bot: one dispatcher thread handling one update at a time, and the   *)
(* threads cmd_stop has started.                                           *)
(***************************************************************************)
InitBot ==
    /\ snapshots_taken = [c \in DOMAIN cam_instances |-> 0]
    /\ request = [cmd |-> "none", chat_id |-> 0, text |-> <<>>,
                  kwargs |-> HelpDefaults]
    /\ replies = <<>>
    /\ camCalls = <<>>
    /\ raised = "none"
    /\ log = <<>>
    /\ pc = "idle"
    /\ threads = <<>>
    /\ spawned = {}

Init ==
    /\ InitBot
    /\ rtext = <<>>
    /\ rid = <<>>
    /\ rdone = FALSE

Next ==
    \/ \E u \in Updates(ScopedTexts(GetpicVerb)), r \in SnapResults :
          cmd_getpic(u, r) /\ UNCHANGED resolverVars
    \/ \E u \in Updates(ScopedTexts(GetfullpicVerb)), r \in SnapResults :
          cmd_getfullpic(u, r) /\ UNCHANGED resolverVars
    \/ \E u \in Updates(ScopedTexts(MotionOffVerb)), r \in SwitchResults :
          cmd_motion_detection_off(u, r) /\ UNCHANGED resolverVars
    \/ \E u \in Updates(ScopedTexts(MotionOnVerb)), r \in SwitchResults :
          cmd_motion_detection_on(u, r) /\ UNCHANGED resolverVars
    \/ \E u \in Updates({ListText}) :
          cmd_list_cams(u) /\ UNCHANGED resolverVars
    \/ \E u \in Updates({HelpText}), a \in BOOLEAN, q \in BOOLEAN,
          c \in DOMAIN cam_instances \cup {None} :
          cmd_help(u, a, q, c) /\ UNCHANGED resolverVars
    \/ \E u \in Updates({StopText}) :
          cmd_stop(u) /\ UNCHANGED resolverVars
    \/ cmd_stop_thread_start /\ UNCHANGED resolverVars
    \/ cmd_stop_return /\ UNCHANGED resolverVars
    \/ \E i \in 1..Len(threads) :
          stop_polling_call(i) /\ UNCHANGED resolverVars
    \/ \E i \in 1..Len(threads) :
          stop_polling_return(i) /\ UNCHANGED resolverVars

Spec == Init /\ [][Next]_vars

(***************************************************************************)
(* The resolver on its own: camera_selection's extraction applied to one   *)
(* text out of a bounded set.                                              *)
(***************************************************************************)
LineFeed == <<"\n">>

Tokens ==
    {CamMarker, <<"1">>, <<"2">>, <<"_">>, <<"c">>, LineFeed}

RECURSIVE TokenStrings(_, _)
TokenStrings(tokens, n) ==
    IF n = 0 THEN {<<>>}
    ELSE LET shorter == TokenStrings(tokens, n - 1)
         IN  shorter \cup {s \o t : s \in shorter, t \in tokens}

ScopedVerbs == {GetpicVerb, GetfullpicVerb, MotionOnVerb, MotionOffVerb}

\* a camera-scoped verb, or nothing, and then up to MaxTokens tokens
TextsOver(tokens) ==
    {v \o s : v \in ScopedVerbs \cup {<<>>},
              s \in TokenStrings(tokens, MaxTokens)}

OneLineTexts == TextsOver(Tokens \ {LineFeed})

ResolverTexts == TextsOver(Tokens)

InitResolve ==
    /\ InitBot
    /\ \/ rtext \in OneLineTexts
       \/ rtext \in ResolverTexts \ OneLineTexts
    /\ rid = <<>>
    /\ rdone = FALSE

Resolve ==
    /\ ~rdone
    /\ rid' = ExtractCamId(rtext)
    /\ rdone' = TRUE
    /\ UNCHANGED <<rtext, botVars>>

NextResolve == Resolve

SpecResolve == InitResolve /\ [][NextResolve]_vars

(***************************************************************************)
(* Properties.                                                             *)
(***************************************************************************)
GatedCmds ==
    {"getpic", "getfullpic", "stop", "list", "motion_detection_on",
     "motion_detection_off"}

ScopedCmds ==
    {"getpic", "getfullpic", "motion_detection_on", "motion_detection_off"}

SnapshotCmds == {"getpic", "getfullpic"}

AllowListed == request.chat_id \in user_ids

Registered == ExtractCamId(request.text) \in DOMAIN cam_instances

MediaAt == {i \in 1..Len(replies) : IsMedia(replies[i])}

FooterAt ==
    {i \in 1..Len(replies) :
        replies[i].fmt = "Available commands\n{cmds} or /list available cameras"}

\* C1: a gated command from a chat id outside the allow-list is answered by
\* the single reply "Not authorized", calls no camera and starts no
\* stop-polling thread.
C1_UnauthorizedRejected ==
    (request.cmd \in GatedCmds /\ ~AllowListed) =>
        /\ replies = <<NotAuthorized>>
        /\ camCalls = <<>>
        /\ spawned = {}
        /\ pc = "idle"

C1_Witness ==
    /\ request.cmd = "getfullpic"
    /\ ~AllowListed
    /\ Registered
    /\ replies = <<NotAuthorized>>

\* C2: for each of the seven commands, help included, a chat id outside the
\* allow-list is sent no reply other than "Not authorized".
C2_EveryCommandGated ==
    (request.cmd \in GatedCmds \cup {"help"} /\ ~AllowListed) =>
        \A i \in 1..Len(replies) : replies[i] = NotAuthorized

\* C3: a snapshot command of an allow-listed user on a registered camera
\* whose take_snapshot succeeds sends exactly one media reply, a photo for
\* getpic and a filenamed document for getfullpic, captioned with the
\* camera's current snapshot counter, and after it exactly one help footer
\* listing the commands of that camera.
C3_SnapshotReplies ==
    (/\ request.cmd \in SnapshotCmds
     /\ AllowListed
     /\ Registered
     /\ Len(camCalls) = 1
     /\ camCalls[1].ok) =>
        /\ Cardinality(MediaAt) = 1
        /\ Cardinality(FooterAt) = 1
        /\ \A i \in MediaAt :
              /\ replies[i].kind =
                    (IF request.cmd = "getpic" THEN "photo" ELSE "document")
              /\ (replies[i].kind = "document") = (replies[i].filename # "")
              /\ replies[i].caption # ""
              /\ replies[i].n = snapshots_taken[ExtractCamId(request.text)]
              /\ \A j \in FooterAt :
                    /\ i < j
                    /\ replies[j].cmds =
                          cam_instances[ExtractCamId(request.text)].commands

C3_Witness ==
    /\ request.cmd = "getfullpic"
    /\ AllowListed
    /\ ExtractCamId(request.text) = Cam2
    /\ Len(camCalls) = 1
    /\ camCalls[1].ok
    /\ snapshots_taken[Cam2] = 2
    /\ Len(replies) = 3
    /\ replies[2].kind = "document"
    /\ replies[2].n = 2

\* C4: a camera-scoped command of an allow-listed user on a registered
\* camera whose operation raises HomeCamError sends exactly one text reply
\* carrying the error message, no photo, no document and no help footer,
\* and the error does not leave the handler.
C4_CameraErrorReply ==
    (/\ request.cmd \in ScopedCmds
     /\ AllowListed
     /\ Registered
     /\ Len(camCalls) = 1
     /\ ~camCalls[1].ok) =>
        /\ Len(replies) = 1
        /\ replies[1].kind = "text"
        /\ replies[1].err = camCalls[1].err
        /\ replies[1].err \in ErrMsgs
        /\ MediaAt = {}
        /\ FooterAt = {}
        /\ raised = "none"
        /\ pc = "idle"

C4_Witness ==
    /\ request.cmd = "getpic"
    /\ AllowListed
    /\ Registered
    /\ Len(camCalls) = 1
    /\ ~camCalls[1].ok
    /\ replies = <<SnapshotErrorReply("Camera unreachable")>>

\* C5 as stated: a camera-scoped command calls no camera but the one whose
\* key is the identifier in its text, and when that identifier is no
\* registry key it calls no camera, sends no reply and ends with KeyError.
C5_AsStated ==
    request.cmd \in ScopedCmds =>
        /\ \A i \in 1..Len(camCalls) :
              camCalls[i].cam = ExtractCamId(request.text)
        /\ ~Registered =>
              /\ camCalls = <<>>
              /\ replies = <<>>
              /\ raised = "KeyError"

\* C5 as amended: a camera-scoped command calls no camera but the one whose
\* key is the identifier in its text; when that identifier is no registry
\* key it calls no camera, and for an allow-listed user it sends no reply
\* and ends with KeyError leaving the handler.
C5_ResolvedCameraOnly ==
    request.cmd \in ScopedCmds =>
        /\ \A i \in 1..Len(camCalls) :
              camCalls[i].cam = ExtractCamId(request.text)
        /\ ~Registered => camCalls = <<>>
        /\ (~Registered /\ AllowListed) =>
              /\ replies = <<>>
              /\ raised = "KeyError"

C5_Witness ==
    /\ request.cmd = "motion_detection_on"
    /\ AllowListed
    /\ request.text = MotionOnVerb \o <<"1">>
    /\ ExtractCamId(request.text) = request.text
    /\ raised = "KeyError"
    /\ replies = <<>>

\* whether `cam_` stands in text at the 0-based position p
MarkerAt(text, p) ==
    /\ p + 4 <= Len(text)
    /\ text[p + 1] = "c"
    /\ text[p + 2] = "a"
    /\ text[p + 3] = "m"
    /\ text[p + 4] = "_"

Suffix(text, p) == [i \in 1..(Len(text) - p) |-> text[p + i]]

\* C6 as stated: for a text containing `cam_`, the identifier is the suffix
\* of the text from the FIRST occurrence of `cam_`.
C6_FirstOccurrence ==
    rdone =>
        \A p \in 0..Len(rtext) :
            (MarkerAt(rtext, p) /\ \A q \in 0..(p - 1) : ~MarkerAt(rtext, q))
                => rid = Suffix(rtext, p)

\* C6 as amended: for a text containing `cam_` with no line feed before its
\* last occurrence, the identifier is the suffix of the text from the LAST
\* occurrence of `cam_`.
C6_LastOccurrence ==
    rdone =>
        \A p \in 0..Len(rtext) :
            (/\ MarkerAt(rtext, p)
             /\ \A q \in (p + 1)..Len(rtext) : ~MarkerAt(rtext, q)
             /\ \A i \in 1..p : rtext[i] # "\n")
                => rid = Suffix(rtext, p)

C6_Witness ==
    /\ rdone
    /\ rtext = GetpicVerb \o CamMarker \o Cam2
    /\ rid = Cam2

\* C7: for each camera-scoped verb and each <id> without `cam_` in it, the
\* text /<verb>_cam_<id> yields exactly cam_<id>: nothing of the verb, no
\* leading underscore or slash.
C7_VerbIndependent ==
    rdone =>
        \A v \in ScopedVerbs :
            (/\ Len(v) + 4 <= Len(rtext)
             /\ \A i \in 1..Len(v) : rtext[i] = v[i]
             /\ MarkerAt(rtext, Len(v))
             /\ \A q \in (Len(v) + 4)..Len(rtext) : ~MarkerAt(rtext, q))
                => rid = Suffix(rtext, Len(v))

C7_Witness ==
    /\ rdone
    /\ rtext = MotionOnVerb \o Cam2 \o <<"_">>
    /\ rid = Cam2 \o <<"_">>

\* C8: whatever flags cmd_help is called with, it sends exactly one reply,
\* the pointer to /list or the command list of a camera.
C8_ExactlyOneHelpMode ==
    (request.cmd = "help" /\ raised = "none") =>
        /\ Len(replies) = 1
        /\ \/ replies[1] = HelpGeneric
           \/ \E c \in DOMAIN cam_instances : replies[1] = HelpFooter(c)

\* C9: an allow-listed /stop has sent its "Stopping" reply before the
\* thread it starts exists, starts that thread exactly once, and can return
\* whatever the thread is doing; a /stop from outside the allow-list starts
\* no thread.
C9_StopFireAndForget ==
    /\ spawned # {} => (request.cmd = "stop" /\ replies = <<StoppingReply>>)
    /\ Cardinality(spawned) <= 1
    /\ (request.cmd = "stop" /\ AllowListed /\ pc # "stop_replied")
          => Cardinality(spawned) = 1
    /\ pc = "stop_started" => ENABLED cmd_stop_return
    /\ (request.cmd = "stop" /\ ~AllowListed)
          => (spawned = {} /\ pc = "idle")

C9_Witness ==
    /\ request.cmd = "stop"
    /\ AllowListed
    /\ pc = "idle"
    /\ \E i \in spawned : threads[i] = "running"

\* C10: a camera-scoped command from outside the allow-list gets the same
\* answer whether or not its identifier is a registry key: the one reply
\* "Not authorized", the same log records, and no KeyError.
C10_AuthorizationBeforeResolution ==
    (request.cmd \in ScopedCmds /\ ~AllowListed) =>
        /\ raised = "none"
        /\ replies = <<NotAuthorized>>
        /\ log = <<"error: User authorization error", UserInfo>>

C10_Witness ==
    /\ request.cmd = "motion_detection_off"
    /\ ~AllowListed
    /\ ~Registered
    /\ raised = "none"
    /\ replies = <<NotAuthorized>>

====
